---- MODULE Spec2Model ----
(***************************************************************************)
(* Model of the wjm Python helpers:                                        *)
(*   src/python/job_helpers.py            (scheduler client, waiter)       *)
(*   src/python/analysis/results_analyzer.py  (metadata, metrics, compare) *)
(*                                                                         *)
(* Every public function is one action.  The caller is single-threaded and *)
(* blocking: pc = "idle" between calls, pc = "done" when a call has        *)
(* returned or raised, pc = "polling" inside the wait_for_job loop.        *)
(* Files, the scheduler process and its output are the environment: each   *)
(* action draws their outcome from a bounded set.                          *)
(***************************************************************************)
EXTENDS Integers, Sequences, FiniteSets, TLC

VARIABLES
    pc,         \* "idle" | "done" | "polling"
    op,         \* name of the function being / last called
    input,      \* its arguments
    env,        \* what the environment answered (process outcome, file layout)
    result,     \* [kind |-> "return", value] or [kind |-> "raise", class, msg]
    effects,    \* sequence of external effects performed by the call, in order
    tmpExists,  \* the temporary job file created by the call still exists
    polls       \* wait_for_job: number of get_status calls made so far

vars == <<pc, op, input, env, result, effects, tmpExists, polls>>

(* ------------------------------ bounds -------------------------------- *)

MaxLines == 2       \* lines of captured process output
MaxPolls == 3       \* iterations of the wait loop that are explored
MaxLogLen == 4      \* symbols of a job log given to extract_metrics
MaxJobs == 2        \* job identifiers given to compare_jobs
MaxBatches == 2     \* archive batch directories

(* ------------------------------ helpers ------------------------------- *)

SeqsUpTo(S, n) == UNION {[1..k -> S] : k \in 0..n}

Return(v) == [kind |-> "return", value |-> v]
Raise(c, m) == [kind |-> "raise", class |-> c, msg |-> m]
NoResult == [kind |-> "none"]
NoEnv == [launch |-> "none"]

\* Python's exception hierarchy, as far as the handlers here can tell:
\* `except subprocess.SubprocessError` catches only that family; a failure
\* to start the process is an OSError (FileNotFoundError, PermissionError).
IsSubclass(c, base) ==
    \/ c = base
    \/ base = "SubprocessError" /\ c \in {"CalledProcessError", "TimeoutExpired"}
    \/ base = "OSError" /\ c \in {"FileNotFoundError", "PermissionError"}

\* subprocess.run(cmd, capture_output=True, text=True): either the process
\* cannot be started (an OSError subclass is raised) or it runs to its end and
\* yields returncode, stdout and stderr, captured separately.
LaunchErrors == {"FileNotFoundError", "PermissionError"}
ReturnCodes == {0, 1}
EmptyText == << >>
Stderrs == {EmptyText, <<"error: scheduler says no">>}

Texts(lines) == SeqsUpTo(lines, MaxLines)

Procs(texts) ==
    {[launch |-> l, returncode |-> 0, stdout |-> EmptyText, stderr |-> EmptyText] :
        l \in LaunchErrors}
    \cup
    {[launch |-> "ok", returncode |-> rc, stdout |-> out, stderr |-> err] :
        rc \in ReturnCodes, out \in texts, err \in Stderrs}

SCHEDULER == "wjm"
Exec(cmd) == [what |-> "exec", cmd |-> cmd]
Eff(w) == [what |-> w]

(* ------------------------------ submit_job ----------------------------- *)

MinWeight == 1
MaxWeight == 1000
DefaultWeight == 10
valid_priorities == {"urgent", "high", "normal", "low"}

\* A weight argument: an int, or some other type (a float, a string).
Weights ==
    {[isInt |-> TRUE, val |-> v] : v \in {0, 1, 10, 1000, 1001}}
    \cup {[isInt |-> FALSE, val |-> 10]}
PrioritiesIn == {"high", "normal", "bogus"}
\* gpu: None, or a string given by its characters
Gpus == {[some |-> FALSE, chars |-> << >>],
         [some |-> TRUE, chars |-> <<"0", ",", "1">>],
         [some |-> TRUE, chars |-> <<"a">>]}
Names == {"", "myjob"}

SubmitArgs ==
    [weight : Weights, priority : PrioritiesIn, gpu : Gpus, name : Names,
     immediate : BOOLEAN]

\* Lines the scheduler may print on submission, with what the two tests of
\* the parse loop answer on each:  'job_' in line.lower()  and
\* re.search(r'job_\d{3}', line)  ("" when there is no match).
SubmitLines ==
    {"Submitted job_001", "queued job_0021 job_003", "JOB_004 accepted",
     "job_x pending", "ok"}

ContainsJobLower(line) == line # "ok"

ReSearchJob(line) ==
    CASE line = "Submitted job_001" -> "job_001"
      [] line = "queued job_0021 job_003" -> "job_002"
      [] OTHER -> ""

\* Outcomes of the file operations of one submission, in the order the code
\* performs them; a later field is meaningful only when the earlier ones
\* succeeded.
SubmitEnvs ==
    LET base == [scriptExists |-> TRUE, readOk |-> TRUE, mktempOk |-> TRUE,
                 writeOk |-> TRUE, proc |-> NoEnv]
    IN  {[base EXCEPT !.scriptExists = FALSE],
         [base EXCEPT !.readOk = FALSE],
         [base EXCEPT !.mktempOk = FALSE],
         [base EXCEPT !.writeOk = FALSE]}
        \cup {[base EXCEPT !.proc = p] : p \in Procs(Texts(SubmitLines))}

IsDigit(c) == c \in {"0", "1", "2", "3", "4", "5", "6", "7", "8", "9"}

\* ValidateSubmit with the upper limit of the weight forgotten
ValidateSubmit_NoUpperLimit(a) ==
    IF ~a.weight.isInt \/ a.weight.val < MinWeight
    THEN "Weight must be an integer between 1 and 1000"
    ELSE IF a.priority \notin valid_priorities
    THEN "Priority must be one of valid_priorities"
    ELSE IF a.gpu.some /\ ~(\A i \in 1..Len(a.gpu.chars) :
                              IsDigit(a.gpu.chars[i]) \/ a.gpu.chars[i] = ",")
    THEN "Invalid GPU specification"
    ELSE ""

\* lines 68-78: the three argument checks, in order; "" when they pass
ValidateSubmit(a) ==
    IF ~a.weight.isInt \/ a.weight.val < MinWeight \/ a.weight.val > MaxWeight
    THEN "Weight must be an integer between 1 and 1000"
    ELSE IF a.priority \notin valid_priorities
    THEN "Priority must be one of valid_priorities"
    ELSE IF a.gpu.some /\ ~(\A i \in 1..Len(a.gpu.chars) :
                              IsDigit(a.gpu.chars[i]) \/ a.gpu.chars[i] = ",")
    THEN "Invalid GPU specification"
    ELSE ""

\* lines 86-96: the lines of the temporary job file
JobFileLines(a) ==
    (IF a.weight.val # DefaultWeight THEN <<<<"# WEIGHT:", a.weight.val>>>> ELSE << >>)
    \o (IF a.gpu.some /\ a.gpu.chars # << >> THEN <<<<"# GPU:", a.gpu.chars>>>> ELSE << >>)
    \o (IF a.priority # "normal" THEN <<<<"# PRIORITY:", a.priority>>>> ELSE << >>)
    \o <<<<"script content">>>>

WriteTmp(a) == [what |-> "write_tmp", content |-> JobFileLines(a)]

\* lines 110-114
SubmitCmd(a) ==
    <<SCHEDULER, IF a.immediate THEN "-srun" ELSE "-qrun", "tmp.run">>
    \o (IF a.name # "" THEN <<"--name", a.name>> ELSE << >>)

\* lines 129-137: first line, in order, that passes both tests
RECURSIVE ParseJobId(_, _)
ParseJobId(stdout, i) ==
    IF i > Len(stdout) THEN ""
    ELSE IF ContainsJobLower(stdout[i]) /\ ReSearchJob(stdout[i]) # ""
         THEN ReSearchJob(stdout[i])
         ELSE ParseJobId(stdout, i + 1)

\* lines 116-140: the inner try block, given the outcome of subprocess.run
SubmitOutcome(p) ==
    IF p.launch # "ok"
    THEN IF IsSubclass(p.launch, "SubprocessError")
         THEN Raise("RuntimeError", [text |-> "Failed to execute scheduler"])
         ELSE Raise(p.launch, [text |-> "launch"])
    ELSE IF p.returncode # 0
    THEN Raise("RuntimeError",
               [text |-> "Job submission failed", code |-> p.returncode,
                detail |-> IF p.stderr # EmptyText THEN p.stderr ELSE p.stdout])
    ELSE IF ParseJobId(p.stdout, 1) # ""
    THEN Return(ParseJobId(p.stdout, 1))
    ELSE Raise("RuntimeError",
               [text |-> "Failed to parse job ID from output", detail |-> p.stdout])

\* lines 67-147: the whole call.  Yields the result, the effects in order and
\* whether the temporary file exists when the call ends.
submit_job(a, e) ==
    IF ValidateSubmit(a) # ""
    THEN [result |-> Raise("ValueError", [text |-> ValidateSubmit(a)]),
          effects |-> << >>, tmp |-> FALSE, proc |-> NoEnv]
    ELSE IF ~e.scriptExists
    THEN [result |-> Raise("FileNotFoundError", [text |-> "Script not found"]),
          effects |-> <<Eff("stat_script")>>, tmp |-> FALSE, proc |-> NoEnv]
    ELSE IF ~e.readOk
    THEN [result |-> Raise("PermissionError", [text |-> "open script"]),
          effects |-> <<Eff("stat_script"), Eff("read_script")>>,
          tmp |-> FALSE, proc |-> NoEnv]
    ELSE IF ~e.mktempOk
    THEN [result |-> Raise("PermissionError", [text |-> "mkstemp"]),
          effects |-> <<Eff("stat_script"), Eff("read_script"), Eff("create_tmp_failed")>>,
          tmp |-> FALSE, proc |-> NoEnv]
    ELSE IF ~e.writeOk
    THEN \* the with-block of lines 100-106 is left before the try of line 108
         [result |-> Raise("OSError", [text |-> "write"]),
          effects |-> <<Eff("stat_script"), Eff("read_script"), Eff("create_tmp"),
                        WriteTmp(a)>>,
          tmp |-> TRUE, proc |-> NoEnv]
    ELSE [result |-> SubmitOutcome(e.proc),
          effects |-> <<Eff("stat_script"), Eff("read_script"), Eff("create_tmp"),
                        WriteTmp(a), Exec(SubmitCmd(a)), Eff("unlink_tmp")>>,
          tmp |-> FALSE, proc |-> e.proc]

SubmitJob ==
    /\ pc = "idle"
    /\ \E a \in SubmitArgs, e \in SubmitEnvs :
        LET r == submit_job(a, e) IN
        /\ op' = "submit_job"
        /\ input' = a
        /\ env' = r.proc
        /\ result' = r.result
        /\ effects' = r.effects
        /\ tmpExists' = r.tmp
    /\ pc' = "done"
    /\ UNCHANGED polls

(* ------------- get_status, kill / pause / resume, get_logs ------------- *)

JobIds == {"job_001", "job_002"}

\* Lines of `wjm -info` / `wjm -status` output, with the status words each
\* contains as a substring.
StatusLines ==
    {"Status: COMPLETED", "Status: FAILED", "Status: RUNNING", "Status: QUEUED",
     "Status: PAUSED", "FAILED: 0 COMPLETED: 3"}

MarkersIn(line) ==
    CASE line = "Status: COMPLETED" -> {"COMPLETED"}
      [] line = "Status: FAILED" -> {"FAILED"}
      [] line = "Status: RUNNING" -> {"RUNNING"}
      [] line = "Status: QUEUED" -> {"QUEUED"}
      [] line = "FAILED: 0 COMPLETED: 3" -> {"FAILED", "COMPLETED"}
      [] OTHER -> {}

\* Python's  `marker in output`  on the captured text
Contains(text, marker) == \E i \in 1..Len(text) : marker \in MarkersIn(text[i])

\* lines 160-172: no handler around subprocess.run
get_status(job_id, p) ==
    LET cmd == <<SCHEDULER>> \o
               (IF job_id # "" THEN <<"-info", job_id>> ELSE <<"-status">>)
    IN  [result |-> IF p.launch # "ok"
                    THEN Raise(p.launch, [text |-> "launch"])
                    ELSE Return([output |-> p.stdout, success |-> p.returncode = 0]),
         effects |-> <<Exec(cmd)>>]

\* lines 201-237: kill_job, pause_job and resume_job differ in the flag only
BoolOp(flag, job_id, p) ==
    LET cmd == <<SCHEDULER, flag, job_id>> IN
    IF p.launch # "ok"
    THEN IF IsSubclass(p.launch, "SubprocessError")
         THEN [result |-> Return(FALSE), effects |-> <<Exec(cmd), Eff("print_stderr")>>]
         ELSE [result |-> Raise(p.launch, [text |-> "launch"]), effects |-> <<Exec(cmd)>>]
    ELSE [result |-> Return(p.returncode = 0),
          effects |-> <<Exec(cmd)>> \o
                      (IF p.returncode # 0 /\ p.stderr # EmptyText
                       THEN <<Eff("print_stderr")>> ELSE << >>)]

kill_job(job_id, p) == BoolOp("-kill", job_id, p)
pause_job(job_id, p) == BoolOp("-pause", job_id, p)
resume_job(job_id, p) == BoolOp("-resume", job_id, p)

\* lines 240-250
get_logs(job_id, p) ==
    LET cmd == <<SCHEDULER, "-logs", job_id>> IN
    IF p.launch # "ok"
    THEN IF IsSubclass(p.launch, "SubprocessError")
         THEN [result |-> Return(EmptyText), effects |-> <<Exec(cmd), Eff("print_stderr")>>]
         ELSE [result |-> Raise(p.launch, [text |-> "launch"]), effects |-> <<Exec(cmd)>>]
    ELSE [result |-> Return(p.stdout),
          effects |-> <<Exec(cmd)>> \o
                      (IF p.returncode # 0 THEN <<Eff("print_stderr")>> ELSE << >>)]

\* re.findall(r'job_\d{3}', line), as a set
FindAllJobs(line) ==
    CASE line = "Submitted job_001" -> {"job_001"}
      [] line = "queued job_0021 job_003" -> {"job_002", "job_003"}
      [] OTHER -> {}

SearchArgs == [name : Names, status : {"", "RUNNING"}, priority : {"", "high"}]

\* lines 269-282: no handler around subprocess.run, exit code not looked at
search_jobs(a, p) ==
    LET cmd == <<SCHEDULER, "-search">>
               \o (IF a.name # "" THEN <<"--name", a.name>> ELSE << >>)
               \o (IF a.status # "" THEN <<"--status", a.status>> ELSE << >>)
               \o (IF a.priority # "" THEN <<"--priority", a.priority>> ELSE << >>)
    IN  [result |-> IF p.launch # "ok"
                    THEN Raise(p.launch, [text |-> "launch"])
                    ELSE Return(UNION {FindAllJobs(p.stdout[i]) : i \in 1..Len(p.stdout)}),
         effects |-> <<Exec(cmd)>>]

\* the state after one call of a function that runs the scheduler once
Called(name, a, p, r) ==
    /\ pc' = "done"
    /\ op' = name
    /\ input' = a
    /\ env' = p
    /\ result' = r.result
    /\ effects' = r.effects
    /\ UNCHANGED <<tmpExists, polls>>

GetStatus ==
    /\ pc = "idle"
    /\ \E j \in JobIds \cup {""}, p \in Procs(Texts(StatusLines)) :
              Called("get_status", j, p, get_status(j, p))

KillJob ==
    /\ pc = "idle"
    /\ \E j \in JobIds, p \in Procs(Texts({"ok"})) : Called("kill_job", j, p, kill_job(j, p))

PauseJob ==
    /\ pc = "idle"
    /\ \E j \in JobIds, p \in Procs(Texts({"ok"})) : Called("pause_job", j, p, pause_job(j, p))

ResumeJob ==
    /\ pc = "idle"
    /\ \E j \in JobIds, p \in Procs(Texts({"ok"})) : Called("resume_job", j, p, resume_job(j, p))

GetLogs ==
    /\ pc = "idle"
    /\ \E j \in JobIds, p \in Procs(Texts(SubmitLines)) :
              Called("get_logs", j, p, get_logs(j, p))

SearchJobs ==
    /\ pc = "idle"
    /\ \E a \in SearchArgs, p \in Procs(Texts(SubmitLines)) :
              Called("search_jobs", a, p, search_jobs(a, p))

(* ------------------------------ wait_for_job --------------------------- *)

\* Classify with the FAILED test placed before the COMPLETED test
Classify_FailedFirst(output) ==
    IF Contains(output, "FAILED") THEN "return_false"
    ELSE IF Contains(output, "COMPLETED") THEN "return_true"
    ELSE IF Contains(output, "RUNNING") \/ Contains(output, "QUEUED") THEN "sleep"
    ELSE "return_false"

\* lines 190-198: what one iteration does with the output it got
Classify(output) ==
    IF Contains(output, "COMPLETED") THEN "return_true"
    ELSE IF Contains(output, "FAILED") THEN "return_false"
    ELSE IF Contains(output, "RUNNING") \/ Contains(output, "QUEUED") THEN "sleep"
    ELSE "return_false"

\* line 175: the call enters the loop
WaitForJob ==
    /\ pc = "idle"
    /\ \E j \in JobIds : input' = j
    /\ pc' = "polling"
    /\ op' = "wait_for_job"
    /\ polls' = 0
    /\ UNCHANGED <<env, result, effects, tmpExists>>

\* lines 186-198: one iteration: get_status, then return or sleep
WaitPoll ==
    /\ pc = "polling"
    /\ polls < MaxPolls
    /\ \E p \in Procs(Texts(StatusLines)) :
        LET st == get_status(input, p) IN
        /\ env' = p
        /\ polls' = polls + 1
        /\ IF st.result.kind = "raise"
           THEN /\ result' = st.result
                /\ effects' = effects \o st.effects
                /\ pc' = "done"
           ELSE LET c == Classify(st.result.value.output) IN
                /\ effects' = effects \o st.effects \o
                              (IF c = "sleep" THEN <<Eff("sleep")>> ELSE << >>)
                /\ result' = IF c = "sleep" THEN result ELSE Return(c = "return_true")
                /\ pc' = IF c = "sleep" THEN "polling" ELSE "done"
    /\ UNCHANGED <<op, input, tmpExists>>

(* ------------------------------ extract_metrics ------------------------ *)

\* A log is a sequence of symbols: single characters, and each label word of
\* the catalogue as one symbol (the patterns are matched with re.IGNORECASE,
\* so a label symbol stands for the word in any case).
Space == {" ", "\n"}
SepClass == {":"} \cup Space                      \* [:\s]
JoinClass == {"_"} \cup Space                     \* [_\s]
DigitClass == {"0", "1", "2", "3", "4", "5", "6", "7", "8", "9"}   \* \d
NumClass == DigitClass \cup {"."}                 \* [0-9.]
SciClass == DigitClass \cup {".", "e", "E", "-"}  \* [0-9.e-] with IGNORECASE

\* lines 90-99: the catalogue, in order.  A label is the sequence of its
\* symbols, each given by the set of symbols that match it; join is what may
\* stand once after the first symbol.  A word that starts or ends with the
\* letter e is spelt with that letter as a symbol of its own ("E" + "poch",
\* "Rat" + "e"), because e is also a character of [0-9.e-] and of "epoch".
LetterE == {"e", "E"}
patterns ==
    << [name |-> "accuracy", label |-> <<{"Accuracy"}>>, join |-> {}, cls |-> NumClass],
       [name |-> "loss", label |-> <<{"Loss"}>>, join |-> {}, cls |-> NumClass],
       [name |-> "time", label |-> <<{"Tim"}, LetterE>>, join |-> {}, cls |-> NumClass],
       [name |-> "epochs", label |-> <<LetterE, {"poch"}>>, join |-> {},
        cls |-> DigitClass],
       [name |-> "learning_rate", label |-> <<{"Learning"}, {"Rat"}, LetterE>>,
        join |-> JoinClass, cls |-> SciClass],
       [name |-> "f1_score", label |-> <<{"F1"}, {"Scor"}, LetterE>>, join |-> JoinClass,
        cls |-> NumClass],
       [name |-> "precision", label |-> <<{"Precision"}>>, join |-> {}, cls |-> NumClass],
       [name |-> "recall", label |-> <<{"Recall"}>>, join |-> {}, cls |-> NumClass] >>

\* index after the symbols label[n..] when they stand at position i, else 0
RECURSIVE LabelRest(_, _, _, _)
LabelRest(text, i, label, n) ==
    IF n > Len(label) THEN i
    ELSE IF i > Len(text) \/ text[i] \notin label[n] THEN 0
    ELSE LabelRest(text, i + 1, label, n + 1)

\* index after the label of pat when it stands at position i, 0 when it does
\* not
LabelEnd(text, i, pat) ==
    IF i > Len(text) \/ text[i] \notin pat.label[1] THEN 0
    ELSE IF i + 1 <= Len(text) /\ text[i + 1] \in pat.join
              /\ LabelRest(text, i + 2, pat.label, 2) # 0
         THEN LabelRest(text, i + 2, pat.label, 2)
    ELSE LabelRest(text, i + 1, pat.label, 2)

\* first index >= i whose symbol is not in cls (greedy run of a class)
RECURSIVE RunEnd(_, _, _)
RunEnd(text, i, cls) ==
    IF i <= Len(text) /\ text[i] \in cls THEN RunEnd(text, i + 1, cls) ELSE i

\* one match attempt of  <label>[:\s]+(<cls>+)  at position i
MatchAt(text, i, pat) ==
    LET j == LabelEnd(text, i, pat)
        k == RunEnd(text, j, SepClass)
        m == RunEnd(text, k, pat.cls)
    IN  IF j = 0 \/ k = j \/ m = k
        THEN [ok |-> FALSE, next |-> i + 1, group |-> << >>]
        ELSE [ok |-> TRUE, next |-> m, group |-> SubSeq(text, k, m - 1)]

\* re.findall(pattern, logs): the groups of the non-overlapping matches, left
\* to right
RECURSIVE FindAll(_, _, _)
FindAll(text, i, pat) ==
    IF i > Len(text) THEN << >>
    ELSE LET r == MatchAt(text, i, pat) IN
         IF r.ok THEN <<r.group>> \o FindAll(text, r.next, pat)
         ELSE FindAll(text, i + 1, pat)

DigitVal(c) ==
    CASE c = "0" -> 0 [] c = "1" -> 1 [] c = "2" -> 2 [] c = "3" -> 3 [] c = "4" -> 4
      [] c = "5" -> 5 [] c = "6" -> 6 [] c = "7" -> 7 [] c = "8" -> 8 [] c = "9" -> 9

RECURSIVE IntOf(_)
IntOf(ds) == IF ds = << >> THEN 0 ELSE 10 * IntOf(SubSeq(ds, 1, Len(ds) - 1)) + DigitVal(ds[Len(ds)])

AllDigits(ds) == Len(ds) >= 1 /\ \A i \in 1..Len(ds) : ds[i] \in DigitClass

FirstIndex(tok, cs) ==
    IF \E i \in 1..Len(tok) : tok[i] \in cs
    THEN CHOOSE i \in 1..Len(tok) : tok[i] \in cs /\ \A k \in 1..(i - 1) : tok[k] \notin cs
    ELSE 0

Unsigned(tok) == IF tok # << >> /\ tok[1] = "-" THEN Tail(tok) ELSE tok
SignOf(tok) == IF tok # << >> /\ tok[1] = "-" THEN -1 ELSE 1

RECURSIVE Normalize(_, _)
Normalize(n, e) ==
    IF n = 0 THEN [num |-> 0, exp |-> 0]
    ELSE IF n % 10 = 0 THEN Normalize(n \div 10, e + 1)
    ELSE [num |-> n, exp |-> e]

\* float(token) for a token of the characters the patterns can capture:
\*   [-] digits [. digits] [e [-] digits]   with at least one mantissa digit.
\* The value is num * 10^exp, normalised so that equal floats are equal here.
ParseFloat(tok) ==
    LET ePos == FirstIndex(tok, {"e", "E"})
        mant == IF ePos = 0 THEN tok ELSE SubSeq(tok, 1, ePos - 1)
        expo == IF ePos = 0 THEN << >> ELSE SubSeq(tok, ePos + 1, Len(tok))
        um == Unsigned(mant)
        dot == FirstIndex(um, {"."})
        whole == IF dot = 0 THEN um ELSE SubSeq(um, 1, dot - 1)
        frac == IF dot = 0 THEN << >> ELSE SubSeq(um, dot + 1, Len(um))
        okMant == AllDigits(whole \o frac)
        okExp == ePos = 0 \/ AllDigits(Unsigned(expo))
    IN  IF okMant /\ okExp
        THEN [ok |-> TRUE,
              val |-> Normalize(SignOf(mant) * IntOf(whole \o frac),
                                (IF ePos = 0 THEN 0 ELSE SignOf(expo) * IntOf(Unsigned(expo)))
                                - Len(frac))]
        ELSE [ok |-> FALSE, val |-> [num |-> 0, exp |-> 0]]

Float(v) == [type |-> "float", num |-> v.num, exp |-> v.exp]
Str(tok) == [type |-> "str", text |-> tok]

\* PickMatch taking the first occurrence instead of the last
PickMatch_First(matches) == matches[1]

\* the occurrence of matches that line 106 / 108 reads: matches[-1]
PickMatch(matches) == matches[Len(matches)]

\* lines 105-108: float(...) with the ValueError fallback to the raw text
Convert(tok) == IF ParseFloat(tok).ok THEN Float(ParseFloat(tok).val) ELSE Str(tok)

\* lines 87-110: the metrics dict, as a function from the names found
extract_metrics(logs) ==
    LET found == {i \in 1..Len(patterns) : FindAll(logs, 1, patterns[i]) # << >>}
        row(n) == CHOOSE i \in found : patterns[i].name = n
    IN  [n \in {patterns[i].name : i \in found} |->
            Convert(PickMatch(FindAll(logs, 1, patterns[row(n)])))]

\* the logs given to extract_metrics when it is called on its own
LogAlphabet == {"Loss", "poch", ":", " ", "1", ".", "e", "a"}
LossAbc == <<"Loss", ":", " ", "a", "b", "c">>
LossTwice == <<"Loss", ":", "1", ".", "1", " ", "Loss", " ", "1", "1">>
LearningRateSci == <<"Learning", "_", "Rat", "e", ":", " ", "1", "e", "-", "1">>
LearningRateRaw == <<"Learning", "Rat", "e", " ", "1", "e", "\n", "Loss", ":", "1">>
LearningRateTwice ==
    <<"Learning", " ", "Rat", "e", ":", "1", "\n", "Learning", " ", "Rat", "e", ":", ".", "1">>
EpochThenRate == <<"E", "poch", ":", "1", "2", " ", "Learning", "Rat", "e", ":", "E", "poch">>
LogTexts ==
    SeqsUpTo(LogAlphabet, MaxLogLen)
    \cup {LossAbc, LossTwice, LearningRateSci, LearningRateRaw, LearningRateTwice,
          EpochThenRate}

ExtractMetrics ==
    /\ pc = "idle"
    /\ \E logs \in LogTexts :
        /\ input' = logs
        /\ result' = Return(extract_metrics(logs))
    /\ pc' = "done"
    /\ op' = "extract_metrics"
    /\ UNCHANGED <<env, effects, tmpExists, polls>>

(* ----------------------- get_job_info, get_job_logs --------------------- *)

\* What the analyzer sees of one job on disk: its directory under the live
\* root and under each archive batch matching [0-9][0-9][0-9], the batches in
\* the order glob lists them.  A directory holds job.info and <job>.log, each
\* absent or with a content.  Location 0 is the live directory, location k
\* the k-th batch.
NoFile == [exists |-> FALSE, content |-> << >>]
File(c) == [exists |-> TRUE, content |-> c]
Dir(i, l) == [info |-> i, log |-> l]
DirAt(lay, loc) == IF loc = 0 THEN lay.live ELSE lay.archive[loc]

Stat(loc, f) == [what |-> "exists", loc |-> loc, file |-> f]
Open(loc, f) == [what |-> "open", loc |-> loc, file |-> f]

\* lines 37-44 and 64-70: the location whose file is looked at last: the live
\* directory when its file exists or there is no batch, else the first batch
\* holding the file, else the last batch
Locate(lay, f) ==
    IF DirAt(lay, 0)[f].exists \/ lay.archive = << >> THEN 0
    ELSE IF \E k \in 1..Len(lay.archive) : DirAt(lay, k)[f].exists
    THEN CHOOSE k \in 1..Len(lay.archive) :
            /\ DirAt(lay, k)[f].exists
            /\ \A m \in 1..(k - 1) : ~DirAt(lay, m)[f].exists
    ELSE Len(lay.archive)

\* the exists() calls made on the way, in order
Probes(lay, f) ==
    <<Stat(0, f)>>
    \o (IF DirAt(lay, 0)[f].exists THEN << >>
        ELSE [k \in 1..Locate(lay, f) |-> Stat(k, f)])
    \o <<Stat(Locate(lay, f), f)>>

\* a metadata line is a sequence of tokens, "=" being a token of its own;
\* lines 53-55: split at the first "=", later lines overwrite earlier ones
RECURSIVE ParseInfo(_)
ParseInfo(lines) ==
    IF lines = << >> THEN << >>
    ELSE LET before == ParseInfo(SubSeq(lines, 1, Len(lines) - 1))
             line == lines[Len(lines)]
             eq == FirstIndex(line, {"="})
             key == SubSeq(line, 1, eq - 1)
             value == SubSeq(line, eq + 1, Len(line))
         IN  IF eq = 0 THEN before
             ELSE [k \in DOMAIN before \cup {key} |->
                        IF k = key THEN value ELSE before[k]]

\* lines 27-57
get_job_info(lay) ==
    LET loc == Locate(lay, "info") IN
    IF ~DirAt(lay, loc).info.exists
    THEN [found |-> FALSE, info |-> << >>, loc |-> loc,
          effects |-> Probes(lay, "info")]
    ELSE [found |-> TRUE, info |-> ParseInfo(DirAt(lay, loc).info.content), loc |-> loc,
          effects |-> Probes(lay, "info") \o <<Open(loc, "info")>>]

\* lines 59-76
get_job_logs(lay) ==
    LET loc == Locate(lay, "log") IN
    IF ~DirAt(lay, loc).log.exists
    THEN [found |-> FALSE, logs |-> << >>, loc |-> loc,
          effects |-> Probes(lay, "log")]
    ELSE [found |-> TRUE, logs |-> DirAt(lay, loc).log.content, loc |-> loc,
          effects |-> Probes(lay, "log") \o <<Open(loc, "log")>>]

(* ------------------------------ calculate_runtime ---------------------- *)

T0 == "2024-01-01 00:00:00"
T5 == "2024-01-01 00:00:05"
T70 == "2024-01-01 00:01:10"

\* datetime.strptime(s, '%Y-%m-%d %H:%M:%S') on the values used here, as
\* seconds since T0; any other string raises ValueError
Strptime(v) ==
    CASE v = <<T0>> -> [ok |-> TRUE, t |-> 0]
      [] v = <<T5>> -> [ok |-> TRUE, t |-> 5]
      [] v = <<T70>> -> [ok |-> TRUE, t |-> 70]
      [] OTHER -> [ok |-> FALSE, t |-> 0]

Absent == [some |-> FALSE, secs |-> 0]
Some(n) == [some |-> TRUE, secs |-> n]

\* dict.get(key, default); a key is the token sequence before "="
Get(info, key, default) == IF <<key>> \in DOMAIN info THEN info[<<key>>] ELSE default

\* lines 112-126
calculate_runtime(info) ==
    LET has(k) == <<k>> \in DOMAIN info /\ info[<<k>>] # << >> /\ info[<<k>>] # <<"N/A">>
    IN  IF ~has("START_TIME") \/ ~has("END_TIME") THEN Absent
        ELSE LET start_dt == Strptime(info[<<"START_TIME">>])
                 end_dt == Strptime(info[<<"END_TIME">>])
             IN  IF ~start_dt.ok \/ ~end_dt.ok THEN Absent
                 ELSE IF end_dt.t - start_dt.t >= 0 THEN Some(end_dt.t - start_dt.t)
                 ELSE Absent

\* lines 196-202
format_duration(seconds) ==
    IF seconds \div 60 > 0
    THEN <<seconds \div 60, "m", seconds % 60, "s">>
    ELSE <<seconds % 60, "s">>

(* ------------------------------ analyze_job ----------------------------- *)

\* Python truth value of an Optional[float]: None and 0.0 are false
TruthyRuntime(r) == r.some /\ r.secs # 0

\* Python truth value of a dict: the empty dict is false
TruthyInfo(gi) == gi.found /\ DOMAIN gi.info # {}

\* lines 128-155
analyze_job(job_id, lay) ==
    LET gi == get_job_info(lay)
        gl == get_job_logs(lay)
        runtime == calculate_runtime(gi.info)
    IN  IF ~TruthyInfo(gi)
        THEN [value |-> [error |-> <<"Job", job_id, "not found">>],
              effects |-> gi.effects]
        ELSE [value |->
                [job_id |-> job_id,
                 name |-> Get(gi.info, "JOB_NAME", <<"N/A">>),
                 status |-> Get(gi.info, "STATUS", <<"UNKNOWN">>),
                 weight |-> Get(gi.info, "WEIGHT", <<"10">>),
                 gpu |-> Get(gi.info, "GPU", <<"N/A">>),
                 priority |-> Get(gi.info, "PRIORITY", <<"normal">>),
                 runtime_seconds |-> runtime,
                 runtime_formatted |->
                    IF TruthyRuntime(runtime) THEN format_duration(runtime.secs)
                    ELSE <<"N/A">>,
                 metrics |-> IF gl.found /\ gl.logs # << >>
                             THEN extract_metrics(gl.logs) ELSE << >>,
                 exit_code |-> Get(gi.info, "EXIT_CODE", <<"N/A">>),
                 user |-> Get(gi.info, "USER", <<"N/A">>)],
              effects |-> gi.effects \o gl.effects]

(* ------------------------------ compare_jobs ---------------------------- *)

RECURSIVE Pow10(_)
Pow10(n) == IF n <= 0 THEN 1 ELSE 10 * Pow10(n - 1)

\* a < b for two floats num * 10^exp
FloatLess(a, b) ==
    LET m == IF a.exp < b.exp THEN a.exp ELSE b.exp
    IN  a.num * Pow10(a.exp - m) < b.num * Pow10(b.exp - m)

\* code points of the characters a captured token can hold
CharOrd(c) ==
    CASE c = "-" -> 45 [] c = "." -> 46 [] c = "E" -> 69 [] c = "e" -> 101
      [] OTHER -> 48 + DigitVal(c)

\* a < b for two str values (lexicographic)
RECURSIVE StrLess(_, _)
StrLess(a, b) ==
    IF b = << >> THEN FALSE
    ELSE IF a = << >> THEN TRUE
    ELSE IF a[1] # b[1] THEN CharOrd(a[1]) < CharOrd(b[1])
    ELSE StrLess(Tail(a), Tail(b))

ValueLess(a, b) ==
    IF a.type = "float" THEN FloatLess(a, b) ELSE StrLess(a.text, b.text)

\* Python truth value of a metric: 0.0 is false, a non-empty str is true
TruthyMetric(v) == IF v.type = "float" THEN v.num # 0 ELSE v.text # << >>

NoBest == [some |-> FALSE, id |-> ""]
Best(id) == [some |-> TRUE, id |-> id]

IsError(a) == "error" \in DOMAIN a

\* line 177: the filter  `if a.get('runtime_seconds')`
HasValidRuntime(a) == ~IsError(a) /\ TruthyRuntime(a.runtime_seconds)

\* line 187: the filter  `if a.get('metrics', {}).get('accuracy')`
HasValidAccuracy(a) ==
    /\ ~IsError(a)
    /\ "accuracy" \in DOMAIN a.metrics
    /\ TruthyMetric(a.metrics["accuracy"])

\* lines 166-193: the reductions over the analyses
Reduce(analyses) ==
    LET n == Len(analyses)
        vr == {i \in 1..n : HasValidRuntime(analyses[i])}
        \* min(): the first element no other is smaller than
        minr == CHOOSE i \in vr :
                  /\ \A k \in vr : analyses[i].runtime_seconds.secs
                                      <= analyses[k].runtime_seconds.secs
                  /\ \A k \in vr : k < i => analyses[k].runtime_seconds.secs
                                               > analyses[i].runtime_seconds.secs
        va == {i \in 1..n : HasValidAccuracy(analyses[i])}
        acc(i) == analyses[i].metrics["accuracy"]
        mixed == \E i, k \in va : acc(i).type # acc(k).type
        \* max(): the first element no other is greater than
        maxa == CHOOSE i \in va :
                  /\ \A k \in va : ~ValueLess(acc(i), acc(k))
                  /\ \A k \in va : k < i => ValueLess(acc(k), acc(i))
    IN  IF mixed
        THEN Raise("TypeError", [text |-> "'>' not supported between str and float"])
        ELSE Return([jobs |-> analyses,
                     best_runtime |-> IF vr # {} THEN Best(analyses[minr].job_id)
                                      ELSE NoBest,
                     best_accuracy |-> IF va # {} THEN Best(analyses[maxa].job_id)
                                       ELSE NoBest,
                     summary |-> << >>])

\* lines 157-193.  fs gives the layout of every job on disk; line 164 analyses
\* each identifier once, in order.
compare_jobs(job_ids, fs) ==
    CHOOSE out \in
        {[result |-> Reduce([i \in 1..Len(job_ids) |-> run[i].value]),
          effects |-> [i \in 1..Len(job_ids) |-> run[i].effects]] :
            run \in {[i \in 1..Len(job_ids) |-> analyze_job(job_ids[i], fs[job_ids[i]])]}} :
        TRUE

(* ------------------------------ analyzer inputs ------------------------- *)

KV(k, v) == <<k, "=", v>>
Times(a, b) == <<KV("STATUS", "COMPLETED"), KV("START_TIME", a), KV("END_TIME", b)>>

\* contents of job.info files
InfoEmpty == << >>
InfoNoEquals == << <<"garbage">>, <<"more", "garbage">> >>
InfoStatusOnly == <<KV("STATUS", "FAILED")>>
InfoNameWithEquals == << <<"JOB_NAME", "=", "a", "=", "b">>, <<"junk">>, KV("WEIGHT", "50") >>
InfoArchived == <<KV("STATUS", "ARCHIVED")>>

\* contents of log files
LogEmpty == << >>
LogAcc09 == <<"Accuracy", ":", " ", "0", ".", "9">>
LogAcc095 == <<"Accuracy", ":", " ", "0", ".", "8", "\n", "Accuracy", ":", " ", "0", ".", "9", "5">>
LogAccZero == <<"Accuracy", ":", "0", ".", "0">>
LogAccRaw == <<"Accuracy", ":", "0", ".", ".", "9">>
LogArchived == <<"Loss", ":", "1">>

AnalyzeLayouts ==
    [live : {Dir(i, l) :
                i \in {NoFile} \cup
                      {File(c) : c \in {InfoEmpty, InfoNoEquals, InfoStatusOnly,
                                        InfoNameWithEquals, Times(T0, T5), Times(T5, T0),
                                        Times(T0, T0), Times(T0, "N/A"),
                                        Times("yesterday", T5)}},
                l \in {NoFile, File(LogEmpty), File(LogAcc09)}},
     archive : SeqsUpTo({Dir(i, l) : i \in {NoFile, File(InfoArchived)},
                                     l \in {NoFile, File(LogArchived)}}, MaxBatches)]

CompareLayouts ==
    [live : {Dir(i, l) :
                i \in {NoFile} \cup
                      {File(c) : c \in {InfoStatusOnly, Times(T0, T0), Times(T0, T5),
                                        Times(T5, T70), Times(T0, T70), Times(T5, T0)}},
                l \in {NoFile, File(LogAcc09), File(LogAcc095), File(LogAccZero),
                       File(LogAccRaw)}},
     archive : {<< >>}]

NoLayout == [live |-> Dir(NoFile, NoFile), archive |-> << >>]

AnalyzeJob ==
    /\ pc = "idle"
    /\ \E j \in JobIds, lay \in AnalyzeLayouts :
        LET r == analyze_job(j, lay) IN
        /\ input' = j
        /\ env' = [k \in JobIds |-> IF k = j THEN lay ELSE NoLayout]
        /\ result' = Return(r.value)
        /\ effects' = r.effects
    /\ pc' = "done"
    /\ op' = "analyze_job"
    /\ UNCHANGED <<tmpExists, polls>>

CompareJobs ==
    /\ pc = "idle"
    /\ \E ids \in SeqsUpTo(JobIds, MaxJobs), fs \in [JobIds -> CompareLayouts] :
        \E r \in {compare_jobs(ids, fs)} :
        /\ input' = ids
        /\ env' = fs
        /\ result' = r.result
        /\ effects' = r.effects
    /\ pc' = "done"
    /\ op' = "compare_jobs"
    /\ UNCHANGED <<tmpExists, polls>>

(* ------------------------------ lifecycle ------------------------------ *)

Init ==
    /\ pc = "idle"
    /\ op = "none"
    /\ input = << >>
    /\ env = NoEnv
    /\ result = NoResult
    /\ effects = << >>
    /\ tmpExists = FALSE
    /\ polls = 0

\* the caller takes the result; the next call starts from a clean slate
Finish ==
    /\ pc = "done"
    /\ pc' = "idle"
    /\ op' = "none"
    /\ input' = << >>
    /\ env' = NoEnv
    /\ result' = NoResult
    /\ effects' = << >>
    /\ tmpExists' = FALSE
    /\ polls' = 0

Next ==
    \/ SubmitJob
    \/ GetStatus
    \/ KillJob
    \/ PauseJob
    \/ ResumeJob
    \/ GetLogs
    \/ SearchJobs
    \/ WaitForJob
    \/ WaitPoll
    \/ Finish

Spec == Init /\ [][Next]_vars

NextAnalysis == AnalyzeJob \/ CompareJobs \/ Finish

SpecAnalysis == Init /\ [][NextAnalysis]_vars

NextExtract == ExtractMetrics \/ Finish

SpecExtract == Init /\ [][NextExtract]_vars

(* ======================= claims on the scheduler client ================= *)

CountWhat(es, w) == Cardinality({i \in 1..Len(es) : es[i].what = w})

SubmitDone == pc = "done" /\ op = "submit_job"

\* C1: every submit_job call that created its temporary job file has removed
\* it when the call returns or raises, whichever way it ends.
C1_TempFileRemovedOnEveryExit ==
    (SubmitDone /\ CountWhat(effects, "create_tmp") > 0) => ~tmpExists

\* C2: a submit_job call whose weight is not an integer in [1,1000] or whose
\* priority is not urgent/high/normal/low raises ValueError (InvalidArgument)
\* and has performed no effect at all: no script check or read, no temporary
\* file, no scheduler process.
C2_InvalidArgsNoEffects ==
    (SubmitDone /\ (\/ ~input.weight.isInt
                    \/ input.weight.val \notin 1..1000
                    \/ input.priority \notin {"urgent", "high", "normal", "low"}))
    => /\ result.kind = "raise"
       /\ result.class = "ValueError"
       /\ effects = << >>
       /\ ~tmpExists

C2_Witness ==
    /\ SubmitDone
    /\ input.weight.isInt
    /\ input.weight.val = 1001
    /\ input.priority = "normal"
    /\ result.kind = "raise"

\* the first line of a text that holds a job_NNN token, 0 when none does
FirstTokenLine(text) ==
    IF \E i \in 1..Len(text) : FindAllJobs(text[i]) # {}
    THEN CHOOSE i \in 1..Len(text) :
            /\ FindAllJobs(text[i]) # {}
            /\ \A k \in 1..(i - 1) : FindAllJobs(text[k]) = {}
    ELSE 0

\* the exception class submit_job uses for a non-zero exit code
SubmissionFailedClass ==
    SubmitOutcome([launch |-> "ok", returncode |-> 1, stdout |-> EmptyText,
                   stderr |-> EmptyText]).class

\* C3: a submit_job call that launches the scheduler runs it exactly once, and
\* its outcome follows from exit code and output: non-zero exit raises
\* SubmissionFailed with the exit code and stderr (stdout when stderr is empty);
\* exit 0 with a job_NNN token returns the token of the first line that has
\* one; exit 0 without a token raises UnparsableOutput with the raw output, an
\* error kind other than SubmissionFailed.
C3_SubmitOutcomeByExitAndOutput ==
    (SubmitDone /\ env.launch = "ok") =>
        /\ CountWhat(effects, "exec") = 1
        /\ env.returncode # 0 =>
              /\ result.kind = "raise"
              /\ result.msg.text = "Job submission failed"
              /\ result.msg.code = env.returncode
              /\ result.msg.detail =
                    IF env.stderr # EmptyText THEN env.stderr ELSE env.stdout
        /\ (env.returncode = 0 /\ FirstTokenLine(env.stdout) # 0) =>
              /\ result.kind = "return"
              /\ result.value = ReSearchJob(env.stdout[FirstTokenLine(env.stdout)])
        /\ (env.returncode = 0 /\ FirstTokenLine(env.stdout) = 0) =>
              /\ result.kind = "raise"
              /\ result.msg.text = "Failed to parse job ID from output"
              /\ result.msg.detail = env.stdout
              /\ result.class # SubmissionFailedClass

ShellingOps ==
    {"submit_job", "get_status", "kill_job", "pause_job", "resume_job", "get_logs",
     "search_jobs"}

\* C4: when the scheduler process cannot be started, an operation that shells
\* out never lets the launch failure reach its caller raw: it returns its
\* failure value or raises the client's own wrapping error.
C4_LaunchFailureWrapped ==
    (pc = "done" /\ op \in ShellingOps /\ env.launch \in LaunchErrors) =>
        \/ result.kind = "return"
        \/ result.kind = "raise" /\ result.class = "RuntimeError"

\* the four status words of the waiter, looked up in one output
InProgressOnly(out) ==
    /\ Contains(out, "RUNNING") \/ Contains(out, "QUEUED")
    /\ ~Contains(out, "COMPLETED")
    /\ ~Contains(out, "FAILED")

\* C5: after every iteration of wait_for_job that got a status output, the
\* wait is still polling exactly when that output has RUNNING or QUEUED and
\* neither COMPLETED nor FAILED; it has made one status call per iteration and
\* slept after each one that did not end the wait; and when it has returned,
\* it returned true exactly when the output has COMPLETED (so false for FAILED
\* without COMPLETED and false for none of the four words).
C5_WaitPollsUntilTerminal ==
    (op = "wait_for_job" /\ polls > 0 /\ env.launch = "ok") =>
        /\ pc \in {"polling", "done"}
        /\ pc = "polling" <=> InProgressOnly(env.stdout)
        /\ pc = "done" => result = Return(Contains(env.stdout, "COMPLETED"))
        /\ CountWhat(effects, "exec") = polls
        /\ CountWhat(effects, "sleep") = IF pc = "polling" THEN polls ELSE polls - 1
        /\ Len(effects) = CountWhat(effects, "exec") + CountWhat(effects, "sleep")

C5_Witness ==
    /\ op = "wait_for_job"
    /\ pc = "done"
    /\ polls = 3
    /\ CountWhat(effects, "sleep") = 2
    /\ Contains(env.stdout, "FAILED")
    /\ Contains(env.stdout, "COMPLETED")
    /\ result = Return(TRUE)

\* C6: get_logs returns the captured stdout verbatim when the scheduler exits
\* with code 0, and the empty string whenever the invocation fails (non-zero
\* exit code or launch failure), whatever the failed process printed.
C6_LogsEmptyOnFailure ==
    (pc = "done" /\ op = "get_logs") =>
        IF env.launch = "ok" /\ env.returncode = 0
        THEN result = Return(env.stdout)
        ELSE result = Return(EmptyText)

(* ========================== claims on the analyzer ====================== *)

CompareReturned == pc = "done" /\ op = "compare_jobs" /\ result.kind = "return"

\* C7: compare_jobs sets best_runtime to the identifier of the first analysis,
\* in input order, whose runtime equals the minimum over the analyses with a
\* present runtime, and leaves it absent exactly when no analysis has a present
\* runtime.
C7_BestRuntimeIsFirstMinimum ==
    CompareReturned =>
        LET jobs == result.value.jobs
            present == {i \in 1..Len(jobs) :
                            ~IsError(jobs[i]) /\ jobs[i].runtime_seconds.some}
            least(i) == \A k \in present :
                            jobs[i].runtime_seconds.secs <= jobs[k].runtime_seconds.secs
            first == CHOOSE i \in present :
                        least(i) /\ \A k \in present : k < i => ~least(k)
        IN  /\ result.value.best_runtime.some <=> present # {}
            /\ present # {} => result.value.best_runtime = Best(jobs[first].job_id)

AnalyzeDone == pc = "done" /\ op = "analyze_job"

InfoFileExists(lay) ==
    lay.live.info.exists \/ \E k \in 1..Len(lay.archive) : lay.archive[k].info.exists

\* C8: analyze_job returns NotFound exactly when no metadata file of the job
\* exists in the live directory or in any archive batch, and then touches no
\* log; whenever a metadata file exists, whatever its lines, it returns an
\* analysis whose missing fields carry their defaults (status UNKNOWN, weight 10).
C8_NotFoundIffNoMetadataFile ==
    AnalyzeDone =>
        LET lay == env[input]
            info == get_job_info(lay).info
        IN  /\ IsError(result.value) <=> ~InfoFileExists(lay)
            /\ IsError(result.value) => \A i \in 1..Len(effects) : effects[i].file # "log"
            /\ ~IsError(result.value) =>
                  /\ <<"STATUS">> \notin DOMAIN info => result.value.status = <<"UNKNOWN">>
                  /\ <<"WEIGHT">> \notin DOMAIN info => result.value.weight = <<"10">>

ExtractDone == pc = "done" /\ op = "extract_metrics"

\* the maximal run of symbols of cls that starts at k
RunFrom(text, k, cls) ==
    SubSeq(text, k,
           CHOOSE m \in k..Len(text) :
              /\ \A x \in k..m : text[x] \in cls
              /\ m = Len(text) \/ text[m + 1] \notin cls)

\* the positions where the label of a pattern stands, followed by one or more
\* separators and then a symbol of cls; and the first symbol after the
\* separators
TokenStart(text, i, pat) ==
    CHOOSE k \in (i + 1)..(Len(text) + 1) :
        /\ k > LabelEnd(text, i, pat)
        /\ \A x \in LabelEnd(text, i, pat)..(k - 1) : text[x] \in SepClass
        /\ k = Len(text) + 1 \/ text[k] \notin SepClass

Occurrences(text, pat, cls) ==
    {i \in 1..Len(text) :
        /\ LabelEnd(text, i, pat) # 0
        /\ LabelEnd(text, i, pat) <= Len(text)
        /\ text[LabelEnd(text, i, pat)] \in SepClass
        /\ TokenStart(text, i, pat) <= Len(text)
        /\ text[TokenStart(text, i, pat)] \in cls}

Last(S) == CHOOSE i \in S : \A k \in S : k <= i

AnySymbol(text) == {text[i] : i \in 1..Len(text)} \ SepClass

\* C9 as stated: the value of a metric is given by the last occurrence of its
\* label followed by separator(s) and a token of any kind: the number when the
\* token converts, else the raw token (`Loss: abc` gives loss = "abc"); a metric
\* without occurrence is omitted; extract_metrics never raises.
C9_LastTokenOfAnyKind ==
    ExtractDone =>
        /\ result.kind = "return"
        /\ \A r \in 1..Len(patterns) :
            LET occ == Occurrences(input, patterns[r], AnySymbol(input))
                tok == RunFrom(input, TokenStart(input, Last(occ), patterns[r]),
                               AnySymbol(input))
            IN  /\ patterns[r].name \in DOMAIN result.value <=> occ # {}
                /\ occ # {} =>
                      result.value[patterns[r].name] =
                          IF ParseFloat(tok).ok THEN Float(ParseFloat(tok).val) ELSE Str(tok)

\* C9, amended: the value of a metric is given by the last occurrence of its
\* label followed by separator(s) and a token of the characters its pattern
\* captures (digits and "."; digits for epochs; digits, ".", "e", "-" for
\* learning_rate): the number when that token converts, else the raw token; a
\* metric without such an occurrence is omitted, so `Loss: abc` gives no loss;
\* extract_metrics never raises.
C9_LastNumericToken ==
    ExtractDone =>
        /\ result.kind = "return"
        /\ input = LossAbc => "loss" \notin DOMAIN result.value
        /\ \A r \in 1..Len(patterns) :
            LET occ == Occurrences(input, patterns[r], patterns[r].cls)
                tok == RunFrom(input, TokenStart(input, Last(occ), patterns[r]),
                               patterns[r].cls)
            IN  /\ patterns[r].name \in DOMAIN result.value <=> occ # {}
                /\ occ # {} =>
                      result.value[patterns[r].name] =
                          IF ParseFloat(tok).ok THEN Float(ParseFloat(tok).val) ELSE Str(tok)

C9_Witness ==
    /\ ExtractDone
    /\ Cardinality(Occurrences(input, patterns[2], NumClass)) = 2
    /\ result.value["loss"] = Float([num |-> 11, exp |-> 0])

\* C10: the metadata file and the log file analyze_job reads for a job come
\* from one job directory: the live one when it holds the job, else the first
\* archive batch, in listing order, that holds it.
C10_OneLocationPerJob ==
    AnalyzeDone =>
        LET lay == env[input]
            holds(loc) == DirAt(lay, loc).info.exists \/ DirAt(lay, loc).log.exists
            home == CHOOSE loc \in 0..Len(lay.archive) :
                        holds(loc) /\ \A k \in 0..(loc - 1) : ~holds(k)
        IN  \A i \in 1..Len(effects) : effects[i].what = "open" => effects[i].loc = home

====
